---- MODULE Spec2Model ----
(***************************************************************************)
(* Path_module of LOF_dev: the region graph cache (graph_manager.py), the  *)
(* fallback router and the path stitcher (matcher.py).                     *)
(*                                                                         *)
(* Coordinates are (lon, lat) pairs as in shapely; here they are metre     *)
(* offsets in a local plane, and geodesic() is the plane distance.         *)
(* The road network (osmnx) is the environment: a provider call fails or   *)
(* returns some graph, a route search on a graph returns None or a line.   *)
(***************************************************************************)
EXTENDS Integers, Sequences, FiniteSets, TLC

VARIABLES
    cfg,             \* config.py thresholds of this run
    cache,           \* RegionGraphCache.cache : key -> graph
    i,               \* stitch_and_merge_paths: number of lines consumed so far
    line,            \* ... the loop variable line = matched_lines[i]
    rid,             \* ... the loop variable rid = seg_region_ids[i]
    chunks,          \* stitch_and_merge_paths: chunks
    merged_coords,   \* stitch_and_merge_paths: merged_coords
    prev_end,        \* stitch_and_merge_paths: prev_end
    prev_rid,        \* stitch_and_merge_paths: prev_rid
    pc,              \* "loop" while lines are consumed, "done" after the return
    bridge_log,      \* router calls made by the last loop iteration
    pre,             \* prev_end, prev_rid, merged_coords, len(chunks) before that iteration
    history,         \* per consumed line: the line and where it was folded
    provider,        \* environment: how the graph provider answers in this run
    op,              \* the last cache / router call made by a client, and its outcome
    ncalls,          \* number of such calls so far
    features,        \* perform_map_matching_by_region: the rows iterated so far
    matched          \* perform_map_matching_by_region: matched

vars == <<cfg, cache, i, line, rid, chunks, merged_coords,
          prev_end, prev_rid, pc, bridge_log, pre, history, provider, op, ncalls,
          features, matched>>

stitch_vars == <<i, line, rid, chunks, merged_coords,
                 prev_end, prev_rid, pc, bridge_log, pre, history>>

match_vars == <<features, matched>>

---------------------------------------------------------------------------
(* Bounds *)
MaxLines == 3      \* lines fed to one stitch_and_merge_paths run
MaxCalls == 2      \* cache / router calls in one run of SpecCache / SpecRouter
MaxWaypoints == 3  \* waypoints of one route_on_graph_with_waypoints call
MaxSegments == 3   \* rows of features_df in one perform_map_matching_by_region run
MaxChunks == 3     \* chunks given to one group_lines_by_connectivity call
MaxIslands == 2    \* islands given to one interpolate_continuous_coords_global call
MaxRows == 2       \* rows of df_meta in one process_data_and_extract_features call

---------------------------------------------------------------------------
(* Optional values: Python None against a present value *)
NoneLine == [some |-> FALSE, coords |-> <<>>]
Line(cs) == [some |-> TRUE, coords |-> cs]
NonePt == [some |-> FALSE, pt |-> <<0, 0>>]
Pt(p) == [some |-> TRUE, pt |-> p]
NoneRid == [some |-> FALSE, v |-> 0]
Rid(r) == [some |-> TRUE, v |-> r]

\* Python truthiness of an optional int: None and 0 are both falsy
Truthy(r) == r.some /\ r.v # 0

Last(s) == s[Len(s)]
Tail1(s) == SubSeq(s, 2, Len(s))

---------------------------------------------------------------------------
(* Geometry *)
Abs(x) == IF x < 0 THEN -x ELSE x

\* geodesic((lat, lon), (lat, lon)).meters
Geodesic(a, b) ==
    LET dlat == Abs(a[1] - b[1])
        dlon == Abs(a[2] - b[2])
        lo == IF dlat > dlon THEN dlat ELSE dlon
        sq == dlat * dlat + dlon * dlon
    IN  CHOOSE r \in lo..(dlat + dlon) : r * r <= sq /\ (r + 1) * (r + 1) > sq

\* the coordinates the inputs are drawn from: collinear, P1 is 50 m from P0
\* and 80 m from P2
P0 == <<0, 0>>
P1 == <<30, 40>>
P2 == <<78, 104>>
Coords == {P0, P1, P2}

\* a point off the road network, on the same line, 60 m from P0 and 10 m from P1
Q1 == <<36, 48>>

---------------------------------------------------------------------------
(* Configuration (config.py) *)
EPS_CONNECT_M == 50
REGION_GRAPH_DIST_M == 5000
DIST_EXPANDS == cfg.DIST_EXPANDS      \* the expansion ladder of this run
NETWORK_TYPES == <<"walk", "drive">>   \* NETWORK_TYPE_PRIMARY, NETWORK_TYPE_SECONDARY
PAD_M == 800

\* the threshold configurations a run may be started with
Configs ==
    { [GAP_BREAK_M |-> 100, MAX_BRIDGE_TRY_M |-> 120, MAX_END_TO_END_DIST_M |-> 130,
       DIST_EXPANDS |-> <<0, 3000>>],
      [GAP_BREAK_M |-> 30,  MAX_BRIDGE_TRY_M |-> 100, MAX_END_TO_END_DIST_M |-> 1000,
       DIST_EXPANDS |-> <<0, 3000>>],
      [GAP_BREAK_M |-> 125, MAX_BRIDGE_TRY_M |-> 60,  MAX_END_TO_END_DIST_M |-> 1000,
       DIST_EXPANDS |-> <<0, 3000>>] }

\* reg_df: the region ids of the region table
KnownRegions == {0, 1}

---------------------------------------------------------------------------
(* Environment: the graph provider (osmnx).  A download fails or returns a *)
(* graph; two downloads of the same area may return different graphs.      *)
(* provider.fails: a call may fail; provider.serves: the graphs a call may *)
(* return.                                                                 *)
GraphVersions == {"a", "b"}
Served == provider.serves
MayFail == provider.fails

PointGraph(region_id, net, dist, ver) ==
    [src |-> "point", rid |-> region_id, net |-> net, dist |-> dist, ver |-> ver]
BboxGraph(net, ver) ==
    [src |-> "bbox", rid |-> 0, net |-> net, dist |-> PAD_M, ver |-> ver]
NoGraph == [src |-> "none", rid |-> 0, net |-> "", dist |-> 0, ver |-> ""]

NoExc == [exc |-> "None", dist |-> 0]
ValueError == [exc |-> "ValueError", dist |-> 0]
RuntimeError == [exc |-> "RuntimeError", dist |-> 0]
ProviderError(dist) == [exc |-> "ProviderError", dist |-> dist]

---------------------------------------------------------------------------
(* RegionGraphCache.get_with_expand                                        *)
(* The set of outcomes of one call on cache c: whether it raised, the      *)
(* exception or the graph, the cache after the call and the provider calls *)
(* made, in order.                                                         *)
EmptyCache == <<>>

CacheKey(region_id, net, extra) == <<region_id, net, REGION_GRAPH_DIST_M + extra>>

RegionKnown(region_id) == region_id.some /\ region_id.v \in KnownRegions

\* variant of Exhausted that always raises the generic error
Exhausted_Generic(c, calls, last_exc) ==
    [raised |-> TRUE, exc |-> RuntimeError,
     graph |-> NoGraph, cache |-> c, calls |-> calls]

Exhausted(c, calls, last_exc) ==
    [raised |-> TRUE,
     exc |-> IF last_exc # NoExc THEN last_exc ELSE RuntimeError,
     graph |-> NoGraph, cache |-> c, calls |-> calls]

Returned(c, G, calls) ==
    [raised |-> FALSE, exc |-> NoExc, graph |-> G, cache |-> c, calls |-> calls]

\* variant of CacheStore that keeps only the newest entry
CacheStore_Evict(c, key, G) == (key :> G)

CacheStore(c, key, G) == (key :> G) @@ c

\* variant of NextRadius that gives up after the first failed download
NextRadius_GiveUp(k) == Len(DIST_EXPANDS) + 1

\* the for loop over cfg.DIST_EXPANDS: a failed download moves on to the next radius
NextRadius(k) == k + 1

RECURSIVE ExpandFrom(_, _, _, _, _, _)
ExpandFrom(c, r, net, k, calls, last_exc) ==
    IF k > Len(DIST_EXPANDS)
    THEN {Exhausted(c, calls, last_exc)}
    ELSE LET key == CacheKey(r, net, DIST_EXPANDS[k])
             dist == key[3]
         IN  IF key \in DOMAIN c
             THEN {Returned(c, c[key], calls)}
             ELSE { Returned(CacheStore(c, key, PointGraph(r, net, dist, v)),
                             PointGraph(r, net, dist, v),
                             Append(calls, [key |-> key, ok |-> TRUE]))
                    : v \in Served }
                  \cup IF MayFail
                       THEN ExpandFrom(c, r, net, NextRadius(k),
                                       Append(calls, [key |-> key, ok |-> FALSE]),
                                       ProviderError(dist))
                       ELSE {}

get_with_expand(c, region_id, net) ==
    IF ~RegionKnown(region_id)
    THEN {[raised |-> TRUE, exc |-> ValueError, graph |-> NoGraph,
           cache |-> c, calls |-> <<>>]}
    ELSE ExpandFrom(c, region_id.v, net, 1, <<>>, NoExc)

---------------------------------------------------------------------------
(* The road network inside a downloaded graph: nodes with x (lon), y (lat) *)
(* and directed edges u -> v with a key, a length and, for some, a         *)
(* geometry polyline from u to v (geometry <<>> when the attribute is      *)
(* absent).                                                                *)
M01 == <<15, 20>>      \* the midpoint of P0 and P1
D01 == <<30, 0>>       \* a bend of the longer road from P0 to P1

Edge(u, v, key, length, geometry) ==
    [u |-> u, v |-> v, key |-> key, length |-> length, geometry |-> geometry]

\* a region with a road through P0, P1 and P2; P1 -> P2 is one-way, and two
\* parallel roads lead from P0 to P1
DenseRoads ==
    [nodes |-> (1 :> P0) @@ (2 :> P1) @@ (3 :> P2),
     edges |-> { Edge(1, 2, 0, 70, <<P0, D01, P1>>),
                 Edge(1, 2, 1, 50, <<>>),
                 Edge(2, 1, 0, 50, <<P1, M01, P0>>),
                 Edge(2, 3, 0, 80, <<>>) }]

\* a region whose only road runs between P0 and P2
SparseRoads ==
    [nodes |-> (1 :> P0) @@ (3 :> P2),
     edges |-> { Edge(1, 3, 0, 130, <<>>), Edge(3, 1, 0, 130, <<>>) }]

\* the roads of graph G: those of its region; a bounding-box graph covers the
\* dense area
Roads(G) ==
    IF G.src = "point" /\ G.rid = 1 THEN SparseRoads ELSE DenseRoads

LatLon(p) == <<p[2], p[1]>>

Dist2(a, b) == (a[1] - b[1]) * (a[1] - b[1]) + (a[2] - b[2]) * (a[2] - b[2])

Min(S) == CHOOSE x \in S : \A y \in S : x <= y

\* squared distance from p to the segment a-b, rounded down
SegDist2(p, a, b) ==
    LET ab2 == Dist2(a, b)
        dot == (p[1] - a[1]) * (b[1] - a[1]) + (p[2] - a[2]) * (b[2] - a[2])
    IN  IF ab2 = 0 \/ dot <= 0 THEN Dist2(p, a)
        ELSE IF dot >= ab2 THEN Dist2(p, b)
        ELSE (Dist2(p, a) * ab2 - dot * dot) \div ab2

\* the shape of an edge on the map
EdgeShape(R, e) ==
    IF e.geometry # <<>> THEN e.geometry ELSE <<R.nodes[e.u], R.nodes[e.v]>>

EdgeDist2(R, e, p) ==
    LET cs == EdgeShape(R, e)
    IN  Min({SegDist2(p, cs[k], cs[k + 1]) : k \in 1..(Len(cs) - 1)})

\* ox.distance.nearest_nodes / nearest_edges when they do not raise
nearest_nodes(R, p) ==
    {n \in DOMAIN R.nodes :
        \A m \in DOMAIN R.nodes : Dist2(R.nodes[n], p) <= Dist2(R.nodes[m], p)}

nearest_edges(R, p) ==
    {e \in R.edges : \A f \in R.edges : EdgeDist2(R, e, p) <= EdgeDist2(R, f, p)}

---------------------------------------------------------------------------
(* snap_nodes_hybrid: the outcomes of one call.  Each library search may   *)
(* raise.  via: "nodes" (line 93), "edges" (lines 99-106), "retry" (line   *)
(* 109) or "raise" (line 109 raised); calls: the searches made, in order.  *)
Search(fn, ok) == [fn |-> fn, ok |-> ok]

Snapped(via, node, e, calls) ==
    [via |-> via, raised |-> FALSE, node |-> node, edge |-> e, calls |-> calls]

NoEdge == Edge(0, 0, 0, 0, <<>>)

SnapFailed ==
    [via |-> "raise", raised |-> TRUE, node |-> 0, edge |-> NoEdge,
     calls |-> <<Search("nearest_nodes", FALSE), Search("nearest_edges", FALSE),
                 Search("nearest_nodes", FALSE)>>]

\* variant of CloserEndpoint that takes the second endpoint on a tie
CloserEndpoint_TieSecond(u, v, du, dv) == IF du < dv THEN u ELSE v

\* line 106
CloserEndpoint(u, v, du, dv) == IF du <= dv THEN u ELSE v

snap_nodes_hybrid(R, p) ==
    {Snapped("nodes", n, NoEdge, <<Search("nearest_nodes", TRUE)>>)
        : n \in nearest_nodes(R, p)}
    \cup {Snapped("edges",
                  CloserEndpoint(e.u, e.v,
                                 Geodesic(LatLon(p), LatLon(R.nodes[e.u])),
                                 Geodesic(LatLon(p), LatLon(R.nodes[e.v]))),
                  e,
                  <<Search("nearest_nodes", FALSE), Search("nearest_edges", TRUE)>>)
            : e \in nearest_edges(R, p)}
    \cup {Snapped("retry", n, NoEdge,
                  <<Search("nearest_nodes", FALSE), Search("nearest_edges", FALSE),
                    Search("nearest_nodes", TRUE)>>)
            : n \in nearest_nodes(R, p)}
    \cup {SnapFailed}

---------------------------------------------------------------------------
(* route_on_graph_with_waypoints                                           *)
\* lines 36-40: snap the waypoints in order, stopping at the first failure
RECURSIVE SnapAll(_, _, _, _)
SnapAll(R, waypoints, k, snaps) ==
    IF k > Len(waypoints)
    THEN {snaps}
    ELSE UNION { IF o.raised
                 THEN {Append(snaps, o)}
                 ELSE SnapAll(R, waypoints, k + 1, Append(snaps, o))
                 : o \in snap_nodes_hybrid(R, waypoints[k]) }

\* lines 43-45: drop a node equal to the one before it
RECURSIVE Collapse(_, _)
Collapse(all_nodes, k) ==
    IF k = 0 THEN <<>>
    ELSE LET unique_nodes == Collapse(all_nodes, k - 1)
         IN  IF unique_nodes # <<>> /\ all_nodes[k] = Last(unique_nodes)
             THEN unique_nodes
             ELSE Append(unique_nodes, all_nodes[k])

EdgesBetween(R, u, v) == {e \in R.edges : e.u = u /\ e.v = v}

\* line 64: the parallel edge of least length (the first such key)
BestEdge(R, u, v) ==
    CHOOSE e \in EdgesBetween(R, u, v) :
        \A f \in EdgesBetween(R, u, v) :
            e.length < f.length \/ (e.length = f.length /\ e.key <= f.key)

\* node sequences from s to t along edges, without a repeated node
NodePaths(R, s, t) ==
    { q \in UNION {[1..n -> DOMAIN R.nodes] : n \in 2..Cardinality(DOMAIN R.nodes)} :
        /\ q[1] = s /\ q[Len(q)] = t
        /\ \A j, k \in 1..Len(q) : j # k => q[j] # q[k]
        /\ \A k \in 1..(Len(q) - 1) : EdgesBetween(R, q[k], q[k + 1]) # {} }

RECURSIVE PathLength(_, _, _)
PathLength(R, q, k) ==
    IF k >= Len(q) THEN 0
    ELSE BestEdge(R, q[k], q[k + 1]).length + PathLength(R, q, k + 1)

\* line 56: nx.shortest_path(G, s, t, weight="length"); {} when no path exists
shortest_path(R, s, t) ==
    LET paths == NodePaths(R, s, t)
    IN  { q \in paths : \A r \in paths : PathLength(R, q, 1) <= PathLength(R, r, 1) }

\* variant of EdgeCoords that keeps only the end of the edge
EdgeCoords_EndOnly(R, e) ==
    IF e.geometry # <<>> THEN <<Last(e.geometry)>> ELSE <<R.nodes[e.v]>>

\* lines 68-73: the geometry when the edge has one, else the straight line
\* between the end nodes
EdgeCoords(R, e) ==
    IF e.geometry # <<>> THEN e.geometry ELSE <<R.nodes[e.u], R.nodes[e.v]>>

\* lines 76-78
AppendEdge(full_coords, edge_coords) ==
    IF full_coords = <<>> THEN edge_coords
    ELSE IF Last(full_coords) = edge_coords[1]
         THEN full_coords \o Tail1(edge_coords)
         ELSE full_coords \o edge_coords

\* lines 59-78: the edges of one found route, appended to full_coords
RECURSIVE RouteCoords(_, _, _, _)
RouteCoords(R, route_nodes, k, full_coords) ==
    IF k >= Len(route_nodes) THEN full_coords
    ELSE RouteCoords(R, route_nodes, k + 1,
            AppendEdge(full_coords,
                       EdgeCoords(R, BestEdge(R, route_nodes[k], route_nodes[k + 1]))))

\* the outcome of one call: the line returned (or None), the snaps made, the
\* collapsed nodes, the routes found pair by pair and whether a search failed
Routed(ln, snaps, unique_nodes, routes, failed) ==
    [line |-> ln, snaps |-> snaps, unique_nodes |-> unique_nodes,
     routes |-> routes, failed |-> failed]

\* variant of OnNoPath that returns what was assembled before the failure
OnNoPath_Partial(full_coords) ==
    IF full_coords = <<>> THEN NoneLine ELSE Line(full_coords)

\* line 79: a failed search returns None
OnNoPath(full_coords) == NoneLine

\* lines 53-81
RECURSIVE RoutePairs(_, _, _, _, _, _)
RoutePairs(R, snaps, unique_nodes, k, full_coords, routes) ==
    IF k >= Len(unique_nodes)
    THEN {Routed(IF full_coords # <<>> THEN Line(full_coords) ELSE NoneLine,
                 snaps, unique_nodes, routes, FALSE)}
    ELSE LET found == shortest_path(R, unique_nodes[k], unique_nodes[k + 1])
         IN  IF found = {}
             THEN {Routed(OnNoPath(full_coords), snaps, unique_nodes, routes, TRUE)}
             ELSE UNION { RoutePairs(R, snaps, unique_nodes, k + 1,
                                     RouteCoords(R, route_nodes, 1, full_coords),
                                     Append(routes, route_nodes))
                          : route_nodes \in found }

SameNodeLine(pt) == Line(<<pt, pt>>)

\* lines 33-81 on the roads R of the graph
route_on_roads(R, waypoints) ==
    IF Len(waypoints) < 2
    THEN {Routed(NoneLine, <<>>, <<>>, <<>>, FALSE)}
    ELSE UNION {
           IF Last(snaps).raised
           THEN {Routed(NoneLine, snaps, <<>>, <<>>, FALSE)}
           ELSE LET all_nodes == [k \in 1..Len(snaps) |-> snaps[k].node]
                    unique_nodes == Collapse(all_nodes, Len(all_nodes))
                IN  IF Len(unique_nodes) < 2
                    THEN {Routed(SameNodeLine(R.nodes[unique_nodes[1]]),
                                 snaps, unique_nodes, <<>>, FALSE)}
                    ELSE RoutePairs(R, snaps, unique_nodes, 1, <<>>, <<>>)
           : snaps \in SnapAll(R, waypoints, 1, <<>>) }

\* the waypoint lists the router is called with here: up to 2 points
WaypointLists == UNION {[1..n -> Coords \cup {Q1}] : n \in 0..2}

\* the lines a call may return, tabulated per road network and waypoint list
RECURSIVE RouteTable(_, _)
RouteTable(R, lists) ==
    IF lists = {} THEN <<>>
    ELSE LET waypoints == CHOOSE w \in lists : TRUE
         IN  (waypoints :> {o.line : o \in route_on_roads(R, waypoints)})
             @@ RouteTable(R, lists \ {waypoints})

RouteLines ==
    (DenseRoads :> RouteTable(DenseRoads, WaypointLists))
    @@ (SparseRoads :> RouteTable(SparseRoads, WaypointLists))

\* the lines a call on graph G may return
route_on_graph_with_waypoints(G, waypoints) == RouteLines[Roads(G)][waypoints]

\* variant of RouteOk with the length test off by one
RouteOk_OffByOne(ln) == ln.some /\ ln.coords # <<>> /\ Len(ln.coords) > 2

\* `line and len(line.coords) > 1`: a LineString is falsy only when empty
RouteOk(ln) == ln.some /\ ln.coords # <<>> /\ Len(ln.coords) > 1

---------------------------------------------------------------------------
(* route_between_points_with_fallback                                      *)
(* The set of outcomes of one call: kind "line" (returned a line), "none" *)
(* (returned None) or "raise"; the cache after the call; and the attempts  *)
(* made, in order: tier, network type, whether a graph was obtained, the   *)
(* provider calls of the attempt, whether a route search ran, its result.  *)
Attempt(tier, net, got, calls, routed, ln) ==
    [tier |-> tier, net |-> net, got |-> got, calls |-> calls,
     routed |-> routed, line |-> ln]

\* all provider calls of the attempts A, in order
RECURSIVE AllCalls(_)
AllCalls(A) == IF A = <<>> THEN <<>> ELSE A[1].calls \o AllCalls(Tail(A))

Resolved(kind, ln, c, attempts) ==
    [kind |-> kind, line |-> ln, cache |-> c, attempts |-> attempts]

\* graph_from_segment_bbox: one provider call, nothing cached
graph_from_segment_bbox(net) ==
    (IF MayFail THEN {[raised |-> TRUE, graph |-> NoGraph]} ELSE {})
    \cup {[raised |-> FALSE, graph |-> BboxGraph(net, v)] : v \in Served}

\* variant of BboxCall that downloads the bounding box a second time
BboxCall_Twice(net, ok) ==
    <<[key |-> <<"bbox", net, PAD_M>>, ok |-> FALSE],
      [key |-> <<"bbox", net, PAD_M>>, ok |-> ok]>>

BboxCall(net, ok) == <<[key |-> <<"bbox", net, PAD_M>>, ok |-> ok]>>

RECURSIVE Tier2From(_, _, _, _)
Tier2From(c, waypoints, n, attempts) ==
    IF n > Len(NETWORK_TYPES)
    THEN {Resolved("none", NoneLine, c, attempts)}
    ELSE LET net == NETWORK_TYPES[n]
         IN  UNION {
               IF g.raised
               THEN Tier2From(c, waypoints, n + 1,
                      Append(attempts, Attempt(2, net, FALSE, BboxCall(net, FALSE), FALSE, NoneLine)))
               ELSE UNION {
                      IF RouteOk(ln)
                      THEN {Resolved("line", ln, c,
                              Append(attempts, Attempt(2, net, TRUE, BboxCall(net, TRUE), TRUE, ln)))}
                      ELSE Tier2From(c, waypoints, n + 1,
                              Append(attempts, Attempt(2, net, TRUE, BboxCall(net, TRUE), TRUE, ln)))
                      : ln \in route_on_graph_with_waypoints(g.graph, waypoints) }
               : g \in graph_from_segment_bbox(net) }

\* variant of Tier2 that puts a bounding-box graph into the cache
Tier2_CachesBbox(c, waypoints, attempts) ==
    IF Len(waypoints) = 0
    THEN {Resolved("raise", NoneLine, c, attempts)}
    ELSE Tier2From(CacheStore(c, <<0, NETWORK_TYPES[1], PAD_M>>,
                              BboxGraph(NETWORK_TYPES[1], "a")),
                   waypoints, 1, attempts)

\* lines 101-102: waypoints[0] and waypoints[-1] are read outside any try
Tier2(c, waypoints, attempts) ==
    IF Len(waypoints) = 0
    THEN {Resolved("raise", NoneLine, c, attempts)}
    ELSE Tier2From(c, waypoints, 1, attempts)

RECURSIVE Tier1From(_, _, _, _, _)
Tier1From(c, region_id, waypoints, n, attempts) ==
    IF n > Len(NETWORK_TYPES)
    THEN Tier2(c, waypoints, attempts)
    ELSE LET net == NETWORK_TYPES[n]
         IN  UNION {
               IF g.raised
               THEN Tier1From(g.cache, region_id, waypoints, n + 1,
                      Append(attempts, Attempt(1, net, FALSE, g.calls, FALSE, NoneLine)))
               ELSE UNION {
                      IF RouteOk(ln)
                      THEN {Resolved("line", ln, g.cache,
                              Append(attempts, Attempt(1, net, TRUE, g.calls, TRUE, ln)))}
                      ELSE Tier1From(g.cache, region_id, waypoints, n + 1,
                              Append(attempts, Attempt(1, net, TRUE, g.calls, TRUE, ln)))
                      : ln \in route_on_graph_with_waypoints(g.graph, waypoints) }
               : g \in get_with_expand(c, region_id, net) }

route_between_points_with_fallback(c, region_id, waypoints) ==
    Tier1From(c, region_id, waypoints, 1, <<>>)

---------------------------------------------------------------------------
(* stitch_and_merge_paths                                                  *)
\* the matched lines of the input: None, an empty LineString, the zero-length
\* line of _safe_same_node_linestring, two-point lines, and a line that
\* starts off the road network
InputLines ==
    {NoneLine, Line(<<>>), SameNodeLine(P1),
     Line(<<P0, P1>>), Line(<<P1, P2>>), Line(<<P2, P1>>), Line(<<P2, P0>>),
     Line(<<Q1, P2>>)}
InputRids == {Rid(r) : r \in KnownRegions}

\* variant of flush_chunk without the length test
flush_chunk_any(chs, mc) == Append(chs, mc)

flush_chunk(chs, mc) == IF Len(mc) >= 2 THEN Append(chs, mc) ELSE chs

\* line 161
Degenerate(ln) == ~ln.some \/ Len(ln.coords) < 2

\* lines 179-180
gap_m(pe, ln) == Geodesic(LatLon(pe.pt), LatLon(ln.coords[1]))
end_to_end_m(pe, ln) == Geodesic(LatLon(pe.pt), LatLon(Last(ln.coords)))

\* variants of Decide, each with one comparison changed
Decide_EpsStrict(c, gap, e2e) ==
    IF e2e >= c.MAX_END_TO_END_DIST_M THEN "split_e2e"
    ELSE IF gap > c.GAP_BREAK_M
         THEN IF gap > c.MAX_BRIDGE_TRY_M THEN "split_far" ELSE "bridge"
         ELSE IF gap >= EPS_CONNECT_M THEN "bridge_short" ELSE "connect"

Decide_E2EStrict(c, gap, e2e) ==
    IF e2e > c.MAX_END_TO_END_DIST_M THEN "split_e2e"
    ELSE IF gap > c.GAP_BREAK_M
         THEN IF gap > c.MAX_BRIDGE_TRY_M THEN "split_far" ELSE "bridge"
         ELSE IF gap > EPS_CONNECT_M THEN "bridge_short" ELSE "connect"

Decide_NoFarCheck(c, gap, e2e) ==
    IF e2e >= c.MAX_END_TO_END_DIST_M THEN "split_e2e"
    ELSE IF gap > c.GAP_BREAK_M THEN "bridge"
         ELSE IF gap > EPS_CONNECT_M THEN "bridge_short" ELSE "connect"

Decide_NoShortBridge(c, gap, e2e) ==
    IF e2e >= c.MAX_END_TO_END_DIST_M THEN "split_e2e"
    ELSE IF gap > c.GAP_BREAK_M
         THEN IF gap > c.MAX_BRIDGE_TRY_M THEN "split_far" ELSE "bridge"
         ELSE "connect"

Decide_NoEps(c, gap, e2e) ==
    IF e2e >= c.MAX_END_TO_END_DIST_M THEN "split_e2e"
    ELSE IF gap > c.GAP_BREAK_M
         THEN IF gap > c.MAX_BRIDGE_TRY_M THEN "split_far" ELSE "bridge"
         ELSE "bridge_short"

\* lines 183-235: what is done with a line that follows a previous endpoint
Decide(c, gap, e2e) ==
    IF e2e >= c.MAX_END_TO_END_DIST_M THEN "split_e2e"
    ELSE IF gap > c.GAP_BREAK_M
         THEN IF gap > c.MAX_BRIDGE_TRY_M THEN "split_far" ELSE "bridge"
         ELSE IF gap > EPS_CONNECT_M THEN "bridge_short" ELSE "connect"

\* the branch the loop body takes for `line`
Branch(ln) ==
    IF Degenerate(ln) THEN "skip"
    ELSE IF ~prev_end.some THEN "start"
    ELSE Decide(cfg, gap_m(prev_end, ln), end_to_end_m(prev_end, ln))

\* variant of Extend that always drops the first coordinate
Extend_DropFirst(mc, coords) == mc \o Tail1(coords)

\* lines 207-208, 225-226, 242-243: append, dropping a shared first coordinate
Extend(mc, coords) ==
    IF Last(mc) = coords[1] THEN mc \o Tail1(coords) ELSE mc \o coords

\* lines 201, 220
RidGap(p_rid, r) == IF Truthy(p_rid) THEN p_rid ELSE r

\* the index in Extend(mc, coords) of the first coordinate of coords
JoinAt(mc, coords) ==
    IF mc # <<>> /\ Last(mc) = coords[1] THEN Len(mc) ELSE Len(mc) + 1

\* where an iteration put its line: the number of the chunk being built and
\* the index of the line's first coordinate in it, and the same for the bridge
Folded(ln, chunk, at, bridge, bridge_at) ==
    [line |-> ln, chunk |-> chunk, at |-> at,
     bridge |-> bridge, bridge_at |-> bridge_at]

NotFolded(ln) == Folded(ln, 0, 0, NoneLine, 0)

\* the loop takes the next line of the input
Take(ln, r) ==
    /\ pc = "loop"
    /\ i < MaxLines
    /\ i' = i + 1
    /\ line' = ln
    /\ rid' = r
    /\ pre' = [prev_end |-> prev_end, prev_rid |-> prev_rid,
               merged |-> merged_coords, chunks |-> Len(chunks)]
    /\ pc' = pc

\* variant of SplitHere that keeps the region id of the line before
SplitHere_KeepRegion(ln, r) ==
    /\ chunks' = flush_chunk(chunks, merged_coords)
    /\ merged_coords' = ln.coords
    /\ prev_end' = Pt(Last(ln.coords))
    /\ prev_rid' = prev_rid
    /\ history' = Append(history,
                     Folded(ln, Len(flush_chunk(chunks, merged_coords)) + 1, 1, NoneLine, 0))

\* flush_chunk(); merged_coords.extend(line.coords); prev_end, prev_rid = ...
SplitHere(ln, r) ==
    /\ chunks' = flush_chunk(chunks, merged_coords)
    /\ merged_coords' = ln.coords
    /\ prev_end' = Pt(Last(ln.coords))
    /\ prev_rid' = r
    /\ history' = Append(history,
                     Folded(ln, Len(flush_chunk(chunks, merged_coords)) + 1, 1, NoneLine, 0))

\* lines 161-162
SkipLine ==
    \E ln \in InputLines, r \in InputRids :
        /\ Take(ln, r)
        /\ Branch(ln) = "skip"
        /\ chunks' = flush_chunk(chunks, merged_coords)
        /\ merged_coords' = <<>>
        /\ prev_end' = NonePt
        /\ prev_rid' = NoneRid
        /\ history' = Append(history, NotFolded(ln))
        /\ bridge_log' = <<>>
        /\ UNCHANGED <<cfg, cache, provider, op, ncalls, match_vars>>

\* lines 169-173
StartChunk ==
    \E ln \in InputLines, r \in InputRids :
        /\ Take(ln, r)
        /\ Branch(ln) = "start"
        /\ chunks' = chunks
        /\ merged_coords' = merged_coords \o ln.coords
        /\ prev_end' = Pt(Last(ln.coords))
        /\ prev_rid' = r
        /\ history' = Append(history,
                         Folded(ln, Len(chunks) + 1, Len(merged_coords) + 1, NoneLine, 0))
        /\ bridge_log' = <<>>
        /\ UNCHANGED <<cfg, cache, provider, op, ncalls, match_vars>>

\* lines 183-188 and 193-198
ForceSplit ==
    \E ln \in InputLines, r \in InputRids :
        /\ Take(ln, r)
        /\ Branch(ln) \in {"split_e2e", "split_far"}
        /\ SplitHere(ln, r)
        /\ bridge_log' = <<>>
        /\ UNCHANGED <<cfg, cache, provider, op, ncalls, match_vars>>

\* lines 199-215 and 218-233, then 242-245 on success
Bridge ==
    \E ln \in InputLines, r \in InputRids :
        /\ Take(ln, r)
        /\ Branch(ln) \in {"bridge", "bridge_short"}
        /\ LET rg == RidGap(prev_rid, r)
               gap_waypoints == <<prev_end.pt, ln.coords[1]>>
           IN  \E o \in route_between_points_with_fallback(cache, rg, gap_waypoints) :
                 /\ cache' = o.cache
                 /\ bridge_log' = <<[region_id |-> rg, waypoints |-> gap_waypoints, bridge |-> o.line]>>
                 /\ IF o.kind = "line" /\ RouteOk(o.line)
                    THEN /\ chunks' = chunks
                         /\ merged_coords' =
                               Extend(Extend(merged_coords, o.line.coords), ln.coords)
                         /\ prev_end' = Pt(Last(ln.coords))
                         /\ prev_rid' = r
                         /\ history' = Append(history,
                               Folded(ln, Len(chunks) + 1,
                                      JoinAt(Extend(merged_coords, o.line.coords), ln.coords),
                                      o.line, JoinAt(merged_coords, o.line.coords)))
                    ELSE SplitHere(ln, r)
        /\ UNCHANGED <<cfg, provider, op, ncalls, match_vars>>

\* lines 235-245
Connect ==
    \E ln \in InputLines, r \in InputRids :
        /\ Take(ln, r)
        /\ Branch(ln) = "connect"
        /\ chunks' = chunks
        /\ merged_coords' = Extend(merged_coords, ln.coords)
        /\ prev_end' = Pt(Last(ln.coords))
        /\ prev_rid' = r
        /\ history' = Append(history,
                         Folded(ln, Len(chunks) + 1, JoinAt(merged_coords, ln.coords),
                                NoneLine, 0))
        /\ bridge_log' = <<>>
        /\ UNCHANGED <<cfg, cache, provider, op, ncalls, match_vars>>

\* lines 247-248
Finish ==
    /\ pc = "loop"
    /\ pc' = "done"
    /\ pre' = [prev_end |-> prev_end, prev_rid |-> prev_rid,
               merged |-> merged_coords, chunks |-> Len(chunks)]
    /\ chunks' = flush_chunk(chunks, merged_coords)
    /\ merged_coords' = <<>>
    /\ bridge_log' = <<>>
    /\ UNCHANGED <<cfg, cache, provider, op, ncalls, match_vars, i, line, rid,
                   prev_end, prev_rid, history>>

NoOp == [name |-> "none"]

Init ==
    /\ cfg \in Configs
    /\ cache = EmptyCache
    /\ i = 0
    /\ line = NoneLine
    /\ rid = NoneRid
    /\ chunks = <<>>
    /\ merged_coords = <<>>
    /\ prev_end = NonePt
    /\ prev_rid = NoneRid
    /\ pc = "loop"
    /\ bridge_log = <<>>
    /\ pre = [prev_end |-> NonePt, prev_rid |-> NoneRid, merged |-> <<>>, chunks |-> 0]
    /\ history = <<>>
    /\ provider = [fails |-> FALSE, serves |-> {"a"}]
    /\ op = NoOp
    /\ ncalls = 0
    /\ features = <<>>
    /\ matched = <<>>

Next ==
    \/ SkipLine
    \/ StartChunk
    \/ ForceSplit
    \/ Bridge
    \/ Connect
    \/ Finish

Spec == Init /\ [][Next]_vars

---------------------------------------------------------------------------
(* Clients of the cache and of the router: perform_map_matching_by_region  *)
(* and stitch_and_merge_paths call them with a region id and waypoints.    *)
DefaultConfig ==
    [GAP_BREAK_M |-> 100, MAX_BRIDGE_TRY_M |-> 120, MAX_END_TO_END_DIST_M |-> 130,
     DIST_EXPANDS |-> <<0, 3000>>]

\* the configurations of a cache run: the default ladder and an empty one
CacheConfigs == {DefaultConfig, [DefaultConfig EXCEPT !.DIST_EXPANDS = <<>>]}

\* region ids a call may carry: known ones, one not in reg_df, and None
CallRids == InputRids \cup {Rid(7), NoneRid}

\* waypoint lists of a call: empty, single, routable, and from P2 to P0, which
\* no road of DenseRoads joins
CallWaypoints == {<<>>, <<P0>>, <<P0, P1>>, <<P2, P0>>}

NetworkTypes == {NETWORK_TYPES[n] : n \in 1..Len(NETWORK_TYPES)}

InitClientWith(c, env) ==
    /\ cfg = c
    /\ cache = EmptyCache
    /\ i = 0
    /\ line = NoneLine
    /\ rid = NoneRid
    /\ chunks = <<>>
    /\ merged_coords = <<>>
    /\ prev_end = NonePt
    /\ prev_rid = NoneRid
    /\ pc = "loop"
    /\ bridge_log = <<>>
    /\ pre = [prev_end |-> NonePt, prev_rid |-> NoneRid, merged |-> <<>>, chunks |-> 0]
    /\ history = <<>>
    /\ provider = env
    /\ op = NoOp
    /\ ncalls = 0
    /\ features = <<>>
    /\ matched = <<>>

InitClient(env) == InitClientWith(DefaultConfig, env)

\* one call of RegionGraphCache.get_with_expand
Get ==
    /\ ncalls < MaxCalls
    /\ \E region_id \in CallRids, net \in NetworkTypes :
      \E o \in get_with_expand(cache, region_id, net) :
        /\ ncalls' = ncalls + 1
        /\ cache' = o.cache
        /\ op' = [name |-> "get", region_id |-> region_id, net |-> net,
                  raised |-> o.raised, exc |-> o.exc, graph |-> o.graph,
                  calls |-> o.calls]
        /\ UNCHANGED <<cfg, provider, stitch_vars, match_vars>>

InitCache ==
    \E c \in CacheConfigs : InitClientWith(c, [fails |-> TRUE, serves |-> GraphVersions])

SpecCache == InitCache /\ [][Get]_vars

\* one call of route_between_points_with_fallback
Resolve ==
    /\ ncalls < MaxCalls
    /\ \E region_id \in CallRids, waypoints \in CallWaypoints :
      \E o \in route_between_points_with_fallback(cache, region_id, waypoints) :
        /\ ncalls' = ncalls + 1
        /\ cache' = o.cache
        /\ op' = [name |-> "resolve", region_id |-> region_id,
                  waypoints |-> waypoints, kind |-> o.kind, line |-> o.line,
                  attempts |-> o.attempts]
        /\ UNCHANGED <<cfg, provider, stitch_vars, match_vars>>

SpecRouter == InitClient([fails |-> TRUE, serves |-> {"a"}]) /\ [][Resolve]_vars

---------------------------------------------------------------------------
(* Single calls of snap_nodes_hybrid and route_on_graph_with_waypoints:    *)
(* the run starts with the call's arguments in `op` and the action puts    *)
(* the outcome there.                                                      *)
RoadNetworks == {DenseRoads, SparseRoads}

M12 == <<54, 72>>      \* the midpoint of P1 and P2
SnapPoints == {P0, P1, P2, M01, M12, D01}

SnapCalls == {[name |-> "snap_call", roads |-> R, pt |-> p]
                : R \in RoadNetworks, p \in SnapPoints}

RouteCalls == {[name |-> "route_call", roads |-> R, waypoints |-> w]
                : R \in RoadNetworks,
                  w \in UNION {[1..n -> Coords] : n \in 0..MaxWaypoints}}

InitCall(calls) ==
    /\ op \in calls
    /\ cfg = DefaultConfig
    /\ cache = EmptyCache
    /\ i = 0
    /\ line = NoneLine
    /\ rid = NoneRid
    /\ chunks = <<>>
    /\ merged_coords = <<>>
    /\ prev_end = NonePt
    /\ prev_rid = NoneRid
    /\ pc = "loop"
    /\ bridge_log = <<>>
    /\ pre = [prev_end |-> NonePt, prev_rid |-> NoneRid, merged |-> <<>>, chunks |-> 0]
    /\ history = <<>>
    /\ provider = [fails |-> TRUE, serves |-> {"a"}]
    /\ ncalls = 0
    /\ features = <<>>
    /\ matched = <<>>

Snap ==
    /\ op.name = "snap_call"
    /\ \E o \in snap_nodes_hybrid(op.roads, op.pt) :
         op' = [name |-> "snap", roads |-> op.roads, pt |-> op.pt, via |-> o.via,
                raised |-> o.raised, node |-> o.node, edge |-> o.edge,
                calls |-> o.calls]
    /\ ncalls' = ncalls + 1
    /\ UNCHANGED <<cfg, cache, provider, stitch_vars, match_vars>>

Route ==
    /\ op.name = "route_call"
    /\ \E o \in route_on_roads(op.roads, op.waypoints) :
         op' = [name |-> "route", roads |-> op.roads, waypoints |-> op.waypoints,
                line |-> o.line, snaps |-> o.snaps,
                unique_nodes |-> o.unique_nodes, routes |-> o.routes,
                failed |-> o.failed]
    /\ ncalls' = ncalls + 1
    /\ UNCHANGED <<cfg, cache, provider, stitch_vars, match_vars>>

NextRoute == Snap \/ Route

SpecRoute == InitCall(SnapCalls \cup RouteCalls) /\ [][NextRoute]_vars

---------------------------------------------------------------------------
(* perform_map_matching_by_region over the rows of features_df.  A row is  *)
(* a segment: its GPS trace (absent when all_waypoints has no entry for    *)
(* it) and its region id; all_waypoints holds the trace as                 *)
(* extract_waypoints_by_segment leaves it.                                 *)
NoneList == [some |-> FALSE, pts |-> <<>>]
List(pts) == [some |-> TRUE, pts |-> pts]

Segment(trace, r) == [trace |-> trace, rid |-> r]

Segments ==
    { Segment(NoneList, Rid(0)),
      Segment(List(<<>>), Rid(0)),
      Segment(List(<<P0>>), Rid(0)),
      Segment(List(<<P0, P0>>), Rid(0)),
      Segment(List(<<P0, P1>>), Rid(0)),
      Segment(List(<<P2, P1>>), Rid(0)),
      Segment(List(<<P0, P0, P2>>), Rid(0)) }

\* data_loader.py lines 57-66: consecutive duplicates are dropped
extract_waypoints_by_segment(trace) == Collapse(trace, Len(trace))

\* line 122: all_waypoints.get(sid)
all_waypoints_get(seg) ==
    IF seg.trace.some
    THEN List(extract_waypoints_by_segment(seg.trace.pts))
    ELSE NoneList

\* variant of TooFew that skips only a missing or empty list
TooFew_OnlyEmpty(waypoints) == ~waypoints.some \/ waypoints.pts = <<>>

\* line 125: not waypoints or len(waypoints) < 2
TooFew(waypoints) ==
    ~waypoints.some \/ waypoints.pts = <<>> \/ Len(waypoints.pts) < 2

\* variant of AppendMatched that leaves out a segment without a line
AppendMatched_DropNone(m, ln) == IF ln = NoneLine THEN m ELSE Append(m, ln)

\* lines 126 and 131: matched.append(...)
AppendMatched(m, ln) == Append(m, ln)

\* the loop runs until an exception leaves the function
Matching == IF op.name = "match" THEN op.kind # "raise" ELSE TRUE

\* the outcome for one row: whether the router was called and the number of
\* provider calls it made
Matched(kind, ln, routed, attempts) ==
    [name |-> "match", kind |-> kind, line |-> ln, routed |-> routed,
     provider_calls |-> Len(AllCalls(attempts))]

\* lines 125-127
SkipSegment ==
    /\ Matching
    /\ Len(features) < MaxSegments
    /\ \E seg \in Segments :
         /\ TooFew(all_waypoints_get(seg))
         /\ features' = Append(features, seg)
         /\ matched' = AppendMatched(matched, NoneLine)
         /\ op' = Matched("skip", NoneLine, FALSE, <<>>)
    /\ ncalls' = ncalls + 1
    /\ UNCHANGED <<cfg, cache, provider, stitch_vars>>

\* lines 130-131
MatchSegment ==
    /\ Matching
    /\ Len(features) < MaxSegments
    /\ \E seg \in Segments :
         /\ ~TooFew(all_waypoints_get(seg))
         /\ features' = Append(features, seg)
         /\ \E o \in route_between_points_with_fallback(
                        cache, seg.rid, all_waypoints_get(seg).pts) :
              /\ cache' = o.cache
              /\ matched' = IF o.kind = "raise" THEN matched
                            ELSE AppendMatched(matched, o.line)
              /\ op' = Matched(o.kind, o.line, TRUE, o.attempts)
    /\ ncalls' = ncalls + 1
    /\ UNCHANGED <<cfg, provider, stitch_vars>>

NextMatch == SkipSegment \/ MatchSegment

SpecMatch == InitClient([fails |-> TRUE, serves |-> {"a"}]) /\ [][NextMatch]_vars

---------------------------------------------------------------------------
(* visualizer.py: group_lines_by_connectivity.  Coordinates and tol_deg    *)
(* are in units of the coordinate grid; distances are compared squared.    *)
TOL_DEG == 5

Sign(x) == IF x > 0 THEN 1 ELSE IF x < 0 THEN -1 ELSE 0

Cross(o, a, b) == (a[1] - o[1]) * (b[2] - o[2]) - (a[2] - o[2]) * (b[1] - o[1])

\* the segments a-b and c-d cross in an interior point
Crossing(a, b, c, d) ==
    /\ Sign(Cross(a, b, c)) * Sign(Cross(a, b, d)) < 0
    /\ Sign(Cross(c, d, a)) * Sign(Cross(c, d, b)) < 0

\* squared distance between the segments a-b and c-d, rounded down
SegSegDist2(a, b, c, d) ==
    IF Crossing(a, b, c, d) THEN 0
    ELSE Min({SegDist2(a, c, d), SegDist2(b, c, d),
              SegDist2(c, a, b), SegDist2(d, a, b)})

\* lines[i].distance(lines[j]), squared and rounded down
LineDist2(l1, l2) ==
    Min({SegSegDist2(l1.coords[j], l1.coords[j + 1], l2.coords[k], l2.coords[k + 1])
            : j \in 1..(Len(l1.coords) - 1), k \in 1..(Len(l2.coords) - 1)})

\* line 31: the pair gets an edge
Adjacent(lines, j, k) ==
    j # k /\ LineDist2(lines[j], lines[k]) < TOL_DEG * TOL_DEG

\* variant of Component that stops at the direct neighbours
Component_OneHop(lines, k) ==
    {k} \cup {j \in 1..Len(lines) : Adjacent(lines, k, j)}

RECURSIVE Grow(_, _)
Grow(lines, comp) ==
    LET more == comp \cup {j \in 1..Len(lines) : \E k \in comp : Adjacent(lines, k, j)}
    IN  IF more = comp THEN comp ELSE Grow(lines, more)

\* the nodes reached from node k
Component(lines, k) == Grow(lines, {k})

\* nx.connected_components: one component per node not seen before
RECURSIVE connected_components(_, _, _)
connected_components(lines, k, seen) ==
    IF k > Len(lines) THEN <<>>
    ELSE IF k \in seen THEN connected_components(lines, k + 1, seen)
    ELSE LET comp == Component(lines, k)
         IN  <<comp>> \o connected_components(lines, k + 1, seen \cup comp)

\* lines 21-36: the groups, as sets of indices into lines
group_lines_by_connectivity(lines) ==
    IF lines = <<>> THEN <<>> ELSE connected_components(lines, 1, {})

\* chunks on a road along the x axis: GB starts 3 after GA ends, GC 4 after
\* GB, GD exactly TOL_DEG after GC; GE crosses GA
GA == Line(<<<<0, 0>>, <<10, 0>>>>)
GB == Line(<<<<13, 0>>, <<20, 0>>>>)
GC == Line(<<<<24, 0>>, <<30, 0>>>>)
GD == Line(<<<<35, 0>>, <<40, 0>>, <<40, 9>>>>)
GE == Line(<<<<5, -8>>, <<5, 8>>>>)
GroupLines == {GA, GB, GC, GD, GE}

GroupCalls == {[name |-> "group_call", lines |-> ls]
                : ls \in UNION {[1..n -> GroupLines] : n \in 0..MaxChunks}}

Group ==
    /\ op.name = "group_call"
    /\ op' = [name |-> "group", lines |-> op.lines,
              groups |-> group_lines_by_connectivity(op.lines)]
    /\ ncalls' = ncalls + 1
    /\ UNCHANGED <<cfg, cache, provider, stitch_vars, match_vars>>

SpecGroup == InitCall(GroupCalls) /\ [][Group]_vars

---------------------------------------------------------------------------
(* utils.py: interpolate_continuous_coords_global.  Points are (lat, lon)  *)
(* on the integer grid; distances and interpolated coordinates are rounded *)
(* down to the grid, as floating point rounds them to its own precision.   *)

\* lines 158-161: the point at distance t from p1 on the segment p1-p2
Interpolate(p1, p2, t, seg_dist) ==
    IF seg_dist > 0
    THEN <<p1[1] + ((p2[1] - p1[1]) * t) \div seg_dist,
           p1[2] + ((p2[2] - p1[2]) * t) \div seg_dist>>
    ELSE p1

\* variant of Need that forgets the distance already accumulated
Need_FullStep(step_m, dist_since) == step_m

\* line 157: the distance still to go to the next sample
Need(step_m, dist_since) == step_m - dist_since

\* variant of EmitOnSegment whose loop test is strict
RECURSIVE EmitOnSegment_Strict(_, _, _, _, _, _, _)
EmitOnSegment_Strict(p1, p2, seg_dist, step_m, island_points, dist_since, traveled) ==
    IF dist_since + (seg_dist - traveled) > step_m
    THEN LET need == Need(step_m, dist_since)
         IN  EmitOnSegment_Strict(p1, p2, seg_dist, step_m,
                 Append(island_points, Interpolate(p1, p2, traveled + need, seg_dist)),
                 0, traveled + need)
    ELSE [island_points |-> island_points, dist_since |-> dist_since,
          traveled |-> traveled]

\* lines 156-165: the while loop on one segment; gives the points so far and
\* dist_since and current_seg_traveled at its end
RECURSIVE EmitOnSegment(_, _, _, _, _, _, _)
EmitOnSegment(p1, p2, seg_dist, step_m, island_points, dist_since, traveled) ==
    IF dist_since + (seg_dist - traveled) >= step_m
    THEN LET need == Need(step_m, dist_since)
         IN  EmitOnSegment(p1, p2, seg_dist, step_m,
                 Append(island_points, Interpolate(p1, p2, traveled + need, seg_dist)),
                 0, traveled + need)
    ELSE [island_points |-> island_points, dist_since |-> dist_since,
          traveled |-> traveled]

\* lines 149-167: the segments of one island from index k on
RECURSIVE WalkIsland(_, _, _, _, _)
WalkIsland(segment, k, step_m, island_points, dist_since) ==
    IF k >= Len(segment)
    THEN [island_points |-> island_points, dist_since |-> dist_since]
    ELSE LET seg_dist == Geodesic(segment[k], segment[k + 1])
             w == EmitOnSegment(segment[k], segment[k + 1], seg_dist, step_m,
                                island_points, dist_since, 0)
         IN  WalkIsland(segment, k + 1, step_m, w.island_points,
                        w.dist_since + (seg_dist - w.traveled))

\* variant of IslandStart that keeps the distance left over by the island before
IslandStart_Carry(carried) == carried

\* line 146: dist_since = 0.0 at the start of every island
IslandStart(carried) == 0

\* lines 141-169: the islands from index n on; owner[k] is the island that
\* final_points[k] comes from
RECURSIVE WalkIslands(_, _, _, _, _, _)
WalkIslands(lines_coords, n, step_m, final_points, owner, carried) ==
    IF n > Len(lines_coords)
    THEN [final_points |-> final_points, owner |-> owner]
    ELSE LET segment == lines_coords[n]
         IN  IF Len(segment) < 2
             THEN WalkIslands(lines_coords, n + 1, step_m, final_points, owner, carried)
             ELSE LET w == WalkIsland(segment, 1, step_m, <<segment[1]>>,
                                      IslandStart(carried))
                  IN  WalkIslands(lines_coords, n + 1, step_m,
                          final_points \o w.island_points,
                          owner \o [k \in 1..Len(w.island_points) |-> n],
                          w.dist_since)

interpolate_continuous_coords_global(lines_coords, step_m) ==
    WalkIslands(lines_coords, 1, step_m, <<>>, <<>>, 0)

\* islands: straight, bent, doubling back, straight through a vertex, with
\* short segments, and too short
Islands ==
    { <<>>,
      << <<3, 3>> >>,
      << <<0, 0>>, <<0, 25>> >>,
      << <<0, 0>>, <<30, 40>> >>,
      << <<0, 0>>, <<0, 6>>, <<0, 0>> >>,
      << <<0, 0>>, <<0, 6>>, <<0, 20>> >>,
      << <<0, 0>>, <<0, 4>>, <<3, 4>>, <<3, 12>> >>,
      << <<9, 9>>, <<2, 2>>, <<2, 16>> >> }

Steps == {7, 10}

ResampleCalls ==
    {[name |-> "resample_call", lines_coords |-> ls, step_m |-> st]
        : ls \in UNION {[1..n -> Islands] : n \in 0..MaxIslands}, st \in Steps}

Resample ==
    /\ op.name = "resample_call"
    /\ LET o == interpolate_continuous_coords_global(op.lines_coords, op.step_m)
       IN  op' = [name |-> "resample", lines_coords |-> op.lines_coords,
                  step_m |-> op.step_m, final_points |-> o.final_points,
                  owner |-> o.owner]
    /\ ncalls' = ncalls + 1
    /\ UNCHANGED <<cfg, cache, provider, stitch_vars, match_vars>>

SpecResample == InitCall(ResampleCalls) /\ [][Resample]_vars

---------------------------------------------------------------------------
(* data_loader.py: process_data_and_extract_features.  A row of df_meta is  *)
(* a segment with the distance between its start and end coordinates in    *)
(* metres and its duration in hundredths of a second (None for NaN).        *)
MAX_GROUND_SPEED_KPH == 200
MIN_NON_LOCAL_DISTANCE_M == 50000

NoDuration == [some |-> FALSE, cs |-> 0]
Duration(cs) == [some |-> TRUE, cs |-> cs]

MetaRow(segment_id, distance_m, duration_sec) ==
    [segment_id |-> segment_id, distance_m |-> distance_m,
     duration_sec |-> duration_sec]

\* line 89: a missing duration or one of 0.01 s or less counts as 0.01 s
duration_sec_calc(duration_sec) ==
    IF duration_sec.some /\ duration_sec.cs > 1 THEN duration_sec.cs ELSE 1

\* line 92 with the test speed_kmh > limit: distance_m / seconds * 3.6 > limit
SpeedAbove(row, limit) ==
    row.distance_m * 360 > limit * duration_sec_calc(row.duration_sec)

\* line 99: the test that excludes a row
IsOutlier(row) ==
    /\ SpeedAbove(row, MAX_GROUND_SPEED_KPH)
    /\ row.distance_m > MIN_NON_LOCAL_DISTANCE_M

\* lines 80-112: the rows kept, in order
RECURSIVE KeepRows(_, _, _)
KeepRows(rows, k, features_list) ==
    IF k > Len(rows) THEN features_list
    ELSE KeepRows(rows, k + 1,
                  IF IsOutlier(rows[k]) THEN features_list
                  ELSE Append(features_list, rows[k]))

process_data_and_extract_features(rows) == KeepRows(rows, 1, <<>>)

\* near and far segments, each with a missing, a zero, a short and a long
\* duration
MetaRows ==
    {MetaRow(0, d, t) : d \in {100, 60000},
                        t \in {NoDuration, Duration(0), Duration(1000), Duration(360000)}}

FilterCalls ==
    {[name |-> "filter_call", rows |-> rows]
        : rows \in UNION {[1..n -> MetaRows] : n \in 0..MaxRows}}

Filter ==
    /\ op.name = "filter_call"
    /\ op' = [name |-> "filter", rows |-> op.rows,
              features_list |-> process_data_and_extract_features(op.rows)]
    /\ ncalls' = ncalls + 1
    /\ UNCHANGED <<cfg, cache, provider, stitch_vars, match_vars>>

SpecFilter == InitCall(FilterCalls) /\ [][Filter]_vars

---------------------------------------------------------------------------
(* Properties of stitch_and_merge_paths (Spec).  They are stated on the    *)
(* state after a loop iteration: `line` is the line just consumed and      *)
(* `pre` holds prev_end, merged_coords and len(chunks) from before it.     *)
Iterated == pc = "loop" /\ i > 0

\* a matched line in the claims' sense: not None, at least 2 coordinates
ValidLine(ln) == ln.some /\ Len(ln.coords) >= 2

\* the line just consumed follows a previous endpoint
PairCase == Iterated /\ ValidLine(line) /\ pre.prev_end.some

\* distance from the previous endpoint to the line's start / end
Gap == Geodesic(LatLon(pre.prev_end.pt), LatLon(line.coords[1]))
EndToEnd == Geodesic(LatLon(pre.prev_end.pt), LatLon(line.coords[Len(line.coords)]))

IsPrefix(s, t) == Len(s) <= Len(t) /\ SubSeq(t, 1, Len(s)) = s
IsSuffix(s, t) == Len(s) <= Len(t) /\ SubSeq(t, Len(t) - Len(s) + 1, Len(t)) = s

\* the line went into the chunk that holds the previous line: nothing was
\* flushed, the chunk kept its coordinates and now ends with the line
SameChunk ==
    /\ Len(chunks) = pre.chunks
    /\ pre.merged # <<>>
    /\ IsPrefix(pre.merged, merged_coords)
    /\ \/ IsSuffix(line.coords, merged_coords)
          /\ Len(merged_coords) >= Len(pre.merged) + Len(line.coords)
       \/ IsSuffix(Tail1(line.coords), merged_coords)
          /\ merged_coords[Len(merged_coords) - Len(line.coords) + 1] = line.coords[1]
          /\ Len(merged_coords) >= Len(pre.merged) + Len(line.coords) - 1

\* the chunk so far was flushed and the line starts a new chunk
SplitChunk ==
    /\ Len(chunks) = pre.chunks + 1
    /\ chunks[Len(chunks)] = pre.merged
    /\ merged_coords = line.coords

NoBridgeTried == bridge_log = <<>>

\* C1 as stated: after a previous line, a line whose gap is <= EPS_CONNECT_M
\* always lands in the same chunk as the previous line.
C1_Original ==
    (PairCase /\ Gap <= EPS_CONNECT_M) => SameChunk

\* C1 amended: after a previous line, a line whose gap is <= EPS_CONNECT_M and
\* <= GAP_BREAK_M and whose end_to_end is < MAX_END_TO_END_DIST_M lands in the
\* same chunk as the previous line, and no bridge route is asked for.
C1_SmallGapSameChunk ==
    (PairCase /\ Gap <= EPS_CONNECT_M /\ Gap <= cfg.GAP_BREAK_M
              /\ EndToEnd < cfg.MAX_END_TO_END_DIST_M)
        => (SameChunk /\ NoBridgeTried)

C1_Witness ==
    /\ PairCase /\ Gap = EPS_CONNECT_M /\ Gap <= cfg.GAP_BREAK_M
    /\ EndToEnd < cfg.MAX_END_TO_END_DIST_M
    /\ SameChunk

\* C2: when a previous endpoint exists and end_to_end >= MAX_END_TO_END_DIST_M,
\* the current chunk is flushed and the line starts a new chunk, whatever the gap.
C2_EndToEndSplits ==
    (PairCase /\ EndToEnd >= cfg.MAX_END_TO_END_DIST_M) => SplitChunk

C2_Witness ==
    /\ PairCase /\ EndToEnd >= cfg.MAX_END_TO_END_DIST_M
    /\ Gap <= EPS_CONNECT_M
    /\ SplitChunk

Poly2(ln) == ln.some /\ Len(ln.coords) >= 2

\* C4: with a previous endpoint, end_to_end < MAX_END_TO_END_DIST_M and
\* EPS_CONNECT_M < gap <= MAX_BRIDGE_TRY_M, exactly one bridge route from the
\* previous endpoint to the line's start is asked for; a bridge of >= 2
\* coordinates is appended to the current chunk followed by the line; None
\* flushes the chunk and the line starts a new one.
C4_BridgeCase ==
    /\ PairCase
    /\ EndToEnd < cfg.MAX_END_TO_END_DIST_M
    /\ Gap > EPS_CONNECT_M
    /\ Gap <= cfg.MAX_BRIDGE_TRY_M

C4_BridgeThenLine(b, l) ==
    \E bb \in {b, Tail1(b)}, ll \in {l, Tail1(l)} :
        merged_coords = pre.merged \o bb \o ll

C4_BridgeOrSplit ==
    C4_BridgeCase =>
        /\ Len(bridge_log) = 1
        /\ bridge_log[1].waypoints = <<pre.prev_end.pt, line.coords[1]>>
        /\ IF Poly2(bridge_log[1].bridge)
           THEN SameChunk /\ C4_BridgeThenLine(bridge_log[1].bridge.coords, line.coords)
           ELSE bridge_log[1].bridge = NoneLine /\ SplitChunk

C4_Witness ==
    /\ C4_BridgeCase
    /\ Len(bridge_log) = 1
    /\ Poly2(bridge_log[1].bridge)
    /\ bridge_log[1].bridge.coords[1] # bridge_log[1].bridge.coords[2]
    /\ SameChunk

\* C5 as stated: a line that is None or degenerate, the zero-length line of
\* _safe_same_node_linestring included, flushes the current chunk, resets
\* prev_end and prev_rid to None and is added to no chunk.
C5_ZeroLength(ln) ==
    ln.some /\ Len(ln.coords) >= 1
            /\ \A k \in 1..Len(ln.coords) : ln.coords[k] = ln.coords[1]

C5_Flushed ==
    /\ merged_coords = <<>>
    /\ IF Len(pre.merged) >= 2
       THEN Len(chunks) = pre.chunks + 1 /\ chunks[Len(chunks)] = pre.merged
       ELSE Len(chunks) = pre.chunks

C5_Original ==
    (Iterated /\ (~line.some \/ Len(line.coords) < 2 \/ C5_ZeroLength(line)))
        => (C5_Flushed /\ prev_end = NonePt /\ prev_rid = NoneRid)

C7_ChunksWellFormed ==
    /\ \A k \in 1..Len(chunks) : Len(chunks[k]) >= 2
    /\ pc = "done" =>
          /\ merged_coords = <<>>
          /\ pre.merged # <<>> =>
               /\ Len(chunks) = pre.chunks + 1
               /\ chunks[Len(chunks)] = pre.merged

C7_Witness ==
    /\ pc = "done"
    /\ pre.merged # <<>>
    /\ Len(chunks) >= 2

\* the coordinates of chunk number c: an emitted chunk, or the chunk being
\* built
ChunkCoords(c) ==
    IF c \in 1..Len(chunks) THEN chunks[c]
    ELSE IF c = Len(chunks) + 1 /\ pc = "loop" THEN merged_coords
    ELSE <<>>

Piece(coords, at) == [coords |-> coords, at |-> at]

PieceEnd(q) == q.at + Len(q.coords) - 1

\* the bridges and lines folded into chunk number c, in the order of folding
RECURSIVE PiecesUpTo(_, _)
PiecesUpTo(c, k) ==
    IF k = 0 THEN <<>>
    ELSE LET h == history[k]
         IN  PiecesUpTo(c, k - 1)
               \o (IF h.chunk = c /\ h.bridge.some
                   THEN <<Piece(h.bridge.coords, h.bridge_at)>> ELSE <<>>)
               \o (IF h.chunk = c THEN <<Piece(h.line.coords, h.at)>> ELSE <<>>)

Pieces(c) == PiecesUpTo(c, Len(history))

\* piece q lies in chunk number c at its recorded place
InPlace(c, q) ==
    /\ q.at >= 1
    /\ PieceEnd(q) <= Len(ChunkCoords(c))
    /\ SubSeq(ChunkCoords(c), q.at, PieceEnd(q)) = q.coords

\* the pieces of chunk number c cover it from its first to its last
\* coordinate, each starting on or right after the last coordinate of the
\* piece before
Tiled(c) ==
    LET ps == Pieces(c)
    IN  /\ \A n \in 1..Len(ps) : InPlace(c, ps[n])
        /\ ps # <<>> => ps[1].at = 1 /\ PieceEnd(ps[Len(ps)]) = Len(ChunkCoords(c))
        /\ ps = <<>> => ChunkCoords(c) = <<>>
        /\ \A n \in 1..(Len(ps) - 1) :
             ps[n + 1].at \in {PieceEnd(ps[n]), PieceEnd(ps[n]) + 1}

ChunkNumbers == 1..(Len(chunks) + 1)

\* C21: every line that is not None and has 2 or more coordinates lies in
\* exactly one chunk: it has a chunk, every chunk is made of exactly the
\* lines and bridges folded into it, each standing where it was folded, and
\* chunks and lines follow the input order.
C21_EveryLineInOneChunk ==
    /\ Len(history) = i
    /\ \A k \in 1..Len(history) :
         ValidLine(history[k].line) =>
            /\ history[k].chunk \in ChunkNumbers
            /\ ChunkCoords(history[k].chunk) # <<>>
    /\ \A c \in ChunkNumbers : Tiled(c)
    /\ \A c \in 1..Len(chunks) : chunks[c] # <<>>
    /\ \A k, m \in 1..Len(history) :
         k < m /\ ValidLine(history[k].line) /\ ValidLine(history[m].line) =>
            \/ history[k].chunk < history[m].chunk
            \/ /\ history[k].chunk = history[m].chunk
               /\ history[k].at <= history[m].at

\* a run that ended with two chunks, the first of two lines
C21_Witness ==
    /\ pc = "done"
    /\ Len(chunks) = 2
    /\ Len(history) = 3
    /\ history[1].chunk = 1 /\ history[2].chunk = 1 /\ history[3].chunk = 2
    /\ history[2].at > 1

\* the joins of chunk number c: the indices n at which a piece starts right
\* after the piece before, so that coordinates n - 1 and n come from two
\* different pieces
Joins(c) ==
    LET ps == Pieces(c)
    IN  {ps[n + 1].at : n \in {m \in 1..(Len(ps) - 1) : ps[m + 1].at = PieceEnd(ps[m]) + 1}}

JoinLength(c, n) == Geodesic(LatLon(ChunkCoords(c)[n - 1]), LatLon(ChunkCoords(c)[n]))

\* C22: in every chunk, two consecutive coordinates are consecutive inside
\* one line or one bridge, or they are a join, and a join is at most
\* EPS_CONNECT_M long, the joins of a bridge with the lines around it
\* included.
C22_Original ==
    \A c \in ChunkNumbers :
        /\ Tiled(c)
        /\ \A n \in Joins(c) : JoinLength(c, n) <= EPS_CONNECT_M

\* the loop iteration made a bridge attempt
BridgeTried == Iterated /\ bridge_log # <<>>

\* C23: a bridge attempt is made with the previous line's region id whenever
\* one is recorded, whatever its value, and with the current line's region
\* id only when none is recorded.
C23_Original ==
    BridgeTried =>
        bridge_log[1].region_id = (IF pre.prev_rid.some THEN pre.prev_rid ELSE rid)

\* C28: after each processed line, prev_end is None exactly when the current
\* chunk is empty; when it is not None it is the last coordinate of the
\* current chunk and of the line just processed, which is the most recent
\* valid line, and prev_rid is that line's region id.
C28_StateInvariant ==
    pc = "loop" =>
        /\ ~prev_end.some <=> merged_coords = <<>>
        /\ ~prev_end.some => ~prev_rid.some /\ (i > 0 => ~ValidLine(line))
        /\ prev_end.some =>
             /\ i > 0 /\ ValidLine(line)
             /\ prev_end.pt = Last(merged_coords)
             /\ prev_end.pt = Last(line.coords)
             /\ prev_rid = rid

\* a line of another region that started a new chunk after a failed bridge
C28_Witness ==
    /\ Iterated /\ BridgeTried
    /\ ~RouteOk(bridge_log[1].bridge)
    /\ Len(chunks) = pre.chunks + 1
    /\ prev_end.some
    /\ pre.prev_rid # rid

---------------------------------------------------------------------------
(* Properties of RegionGraphCache.get_with_expand (SpecCache): `op` is the *)
(* last call and its outcome.                                              *)
GetRaised == op.name = "get" /\ op.raised

\* every radius of the ladder was asked of the provider, in order, and failed
C8_LadderTried ==
    /\ Len(op.calls) = Len(DIST_EXPANDS)
    /\ \A k \in 1..Len(op.calls) :
         /\ ~op.calls[k].ok
         /\ op.calls[k].key =
              <<op.region_id.v, op.net, REGION_GRAPH_DIST_M + DIST_EXPANDS[k]>>

\* C8 as stated: for every region id, get_with_expand raises only after every
\* radius of the ladder was tried against the provider and failed.
C8_Original == GetRaised => C8_LadderTried

\* C8 amended: for a region id of the region table, get_with_expand raises only
\* after every radius of the ladder was tried against the provider and failed;
\* for any other region id (None included) it raises ValueError at once,
\* without a provider call.
C8_RaisesOnlyWhenExhausted ==
    GetRaised =>
        IF op.region_id.some /\ op.region_id.v \in KnownRegions
        THEN C8_LadderTried
        ELSE op.calls = <<>> /\ op.exc = ValueError

C8_Witness ==
    /\ GetRaised
    /\ op.region_id.some /\ op.region_id.v \in KnownRegions
    /\ C8_LadderTried
    /\ Len(op.calls) >= 2

\* C9: a get call never removes a key and never replaces the graph under a
\* key; the keys it adds are exactly those of its successful provider calls,
\* so a failed provider call leaves the mapping as it was.
C9_CacheGrowsOnly ==
    [][ /\ \A key \in DOMAIN cache :
              key \in DOMAIN cache' /\ cache'[key] = cache[key]
        /\ (DOMAIN cache') \ (DOMAIN cache) =
              { op'.calls[k].key : k \in {j \in 1..Len(op'.calls) : op'.calls[j].ok} }
      ]_vars

C9_Witness ==
    /\ GetRaised
    /\ Len(op.calls) >= 1
    /\ Cardinality(DOMAIN cache) >= 1

GetDone == op.name = "get"

\* C24: the provider is asked for the radii in ladder order, each failure
\* moving on to the next radius; when the ladder is exhausted the error
\* raised is the error of the last failed provider call, or the generic
\* error when the ladder is empty.
C24_LadderOrderLastError ==
    GetDone =>
        /\ Len(op.calls) <= Len(DIST_EXPANDS)
        /\ \A k \in 1..Len(op.calls) :
             /\ op.calls[k].key =
                  <<op.region_id.v, op.net, REGION_GRAPH_DIST_M + DIST_EXPANDS[k]>>
             /\ k < Len(op.calls) => ~op.calls[k].ok
        /\ (op.raised /\ RegionKnown(op.region_id)) =>
             /\ Len(op.calls) = Len(DIST_EXPANDS)
             /\ op.calls = <<>> \/ ~op.calls[Len(op.calls)].ok
             /\ op.exc = IF op.calls = <<>> THEN RuntimeError
                         ELSE ProviderError(op.calls[Len(op.calls)].key[3])

\* the whole ladder failed and the error of the widest radius was raised
C24_Witness ==
    /\ GetRaised
    /\ Len(op.calls) = 2
    /\ op.exc = ProviderError(REGION_GRAPH_DIST_M + 3000)

\* with an empty ladder the generic error is raised
C24_WitnessEmptyLadder ==
    /\ GetRaised
    /\ RegionKnown(op.region_id)
    /\ DIST_EXPANDS = <<>>
    /\ op.exc = RuntimeError

\* C26: once a get for a region and network type has returned a graph, a
\* later get for the same region and network type on the same cache returns
\* that graph and makes no provider call, whatever failed or succeeded
\* before.
C26_Original ==
    [][ (/\ GetDone /\ ~op.raised
         /\ op'.region_id = op.region_id /\ op'.net = op.net)
        => (/\ ~op'.raised
            /\ op'.graph = op.graph
            /\ op'.calls = <<>>) ]_vars

---------------------------------------------------------------------------
(* Properties of route_between_points_with_fallback (SpecRouter)           *)
Resolved_ == op.name = "resolve"

\* the attempts in the order the tiers and the configured network types give
AttemptSlots ==
    [k \in 1..(2 * Len(NETWORK_TYPES)) |->
        IF k <= Len(NETWORK_TYPES)
        THEN [tier |-> 1, net |-> NETWORK_TYPES[k]]
        ELSE [tier |-> 2, net |-> NETWORK_TYPES[k - Len(NETWORK_TYPES)]]]

\* C10: attempts follow the tier and network-type order; Tier 2 starts only
\* after every Tier 1 network type failed to give a polyline of >= 2
\* coordinates; the first such polyline is returned and nothing is tried
\* after it; None is returned exactly when all attempts of both tiers failed.
C10_TierOrder ==
    Resolved_ =>
        LET A == op.attempts
            n == Len(A)
        IN  /\ n <= Len(AttemptSlots)
            /\ \A k \in 1..n :
                 /\ A[k].tier = AttemptSlots[k].tier
                 /\ A[k].net = AttemptSlots[k].net
            /\ \A k \in 1..n : k < n => ~Poly2(A[k].line)
            /\ op.kind = "line" =>
                 n >= 1 /\ Poly2(op.line) /\ op.line = A[n].line
            /\ op.kind = "none" <=>
                 (n = Len(AttemptSlots) /\ \A k \in 1..n : ~Poly2(A[k].line))

C10_Witness ==
    /\ Resolved_
    /\ op.kind = "line"
    /\ Len(op.attempts) = Len(NETWORK_TYPES) + 1
    /\ op.attempts[1].routed

\* C11 as stated: a call of route_between_points_with_fallback never raises,
\* whatever the region id, the waypoint list and the provider's failures: it
\* returns a polyline or None.
C11_Original == Resolved_ => op.kind # "raise"

\* attempt a of the region tier routed on the region's base-radius graph: a
\* cache hit at the first key, or a download of the first radius
OnBaseRadius(a) ==
    /\ a.tier = 1 /\ a.got
    /\ a.calls = <<>> \/ a.calls[Len(a.calls)].key[3] = REGION_GRAPH_DIST_M

\* attempt a of the region tier routed on a graph of a wider radius
OnWiderRadius(a) ==
    /\ a.tier = 1 /\ a.got
    /\ a.calls # <<>> /\ a.calls[Len(a.calls)].key[3] > REGION_GRAPH_DIST_M

\* attempt a searched a route between 2 or more waypoints and found none
NoRouteFound(a) == a.routed /\ ~RouteOk(a.line) /\ Len(op.waypoints) >= 2

\* C25: when no route is found on a region's base-radius graph, a
\* wider-radius graph of that region is loaded and routed on before the
\* region tier gives up.
C25_Original ==
    Resolved_ =>
        \A k \in 1..Len(op.attempts) :
            (OnBaseRadius(op.attempts[k]) /\ NoRouteFound(op.attempts[k])) =>
                \E m \in (k + 1)..Len(op.attempts) :
                    /\ OnWiderRadius(op.attempts[m])
                    /\ op.attempts[m].net = op.attempts[k].net
                    /\ op.attempts[m].routed

\* the keys of the successful provider calls of the region tier in the
\* attempts A
RegionKeysStored(A) ==
    UNION { {A[k].calls[n].key : n \in {m \in 1..Len(A[k].calls) : A[k].calls[m].ok}}
            : k \in {j \in 1..Len(A) : A[j].tier = 1} }

\* C29: the bounding-box tier leaves the cache as it is: no bounding-box
\* graph is ever in the cache, and a router call changes the mapping only by
\* the region radius keys that get_with_expand downloaded successfully.
C29_Tier2LeavesCache ==
    [][ /\ \A key \in DOMAIN cache' : cache'[key].src = "point"
        /\ \A key \in DOMAIN cache :
              key \in DOMAIN cache' /\ cache'[key] = cache[key]
        /\ (DOMAIN cache') \ (DOMAIN cache) = RegionKeysStored(op'.attempts)
      ]_vars

\* a call whose region downloads all failed and whose bounding-box download
\* succeeded and gave the route
C29_Witness ==
    /\ Resolved_
    /\ op.kind = "line"
    /\ \E k \in 1..Len(op.attempts) : op.attempts[k].tier = 2 /\ op.attempts[k].got
    /\ cache = EmptyCache

\* C20: one route_between_points_with_fallback call makes a bounded number of
\* provider calls: each tier tries each network type at most once; a Tier 1
\* attempt asks for each radius of the ladder at most once, in ladder order,
\* for its own region and network type; a Tier 2 attempt makes exactly one
\* bounding-box call; no attempt asks for the same key twice.
C20_BoundedProviderCalls ==
    Resolved_ =>
        LET A == op.attempts
            calls == AllCalls(A)
        IN  /\ Len(A) <= 2 * Len(NETWORK_TYPES)
            /\ \A j, k \in 1..Len(A) :
                 j # k => <<A[j].tier, A[j].net>> # <<A[k].tier, A[k].net>>
            /\ \A k \in 1..Len(A) :
                 IF A[k].tier = 1
                 THEN /\ Len(A[k].calls) <= Len(DIST_EXPANDS)
                      /\ \A n \in 1..Len(A[k].calls) :
                           A[k].calls[n].key =
                             <<op.region_id.v, A[k].net,
                               REGION_GRAPH_DIST_M + DIST_EXPANDS[n]>>
                 ELSE /\ Len(A[k].calls) = 1
                      /\ A[k].calls[1].key = <<"bbox", A[k].net, PAD_M>>
            /\ \A k \in 1..Len(A) : \A m, n \in 1..Len(A[k].calls) :
                 m # n => A[k].calls[m].key # A[k].calls[n].key
            /\ Len(calls) <= Len(NETWORK_TYPES) * (Len(DIST_EXPANDS) + 1)

C20_Witness ==
    /\ Resolved_
    /\ op.kind = "none"
    /\ Len(AllCalls(op.attempts)) = Len(NETWORK_TYPES) * (Len(DIST_EXPANDS) + 1)

---------------------------------------------------------------------------
(* Properties of route_on_graph_with_waypoints and snap_nodes_hybrid       *)
(* (SpecRoute): `op` holds the call and its outcome.                       *)
RouteDone == op.name = "route"

\* the collapsed nodes have a consecutive pair without a path between them
SomePairUnroutable ==
    \E k \in 1..(Len(op.unique_nodes) - 1) :
        shortest_path(op.roads, op.unique_nodes[k], op.unique_nodes[k + 1]) = {}

\* C12: when the path search fails for a consecutive pair of snapped nodes the
\* call returns None; a returned line of 2 or more nodes has a found route for
\* every consecutive pair and runs from the first node to the last.
C12_NoPartialRoute ==
    (RouteDone /\ Len(op.unique_nodes) >= 2) =>
        /\ SomePairUnroutable => op.line = NoneLine
        /\ op.line # NoneLine =>
             /\ Len(op.routes) = Len(op.unique_nodes) - 1
             /\ \A k \in 1..Len(op.routes) :
                  /\ op.routes[k][1] = op.unique_nodes[k]
                  /\ Last(op.routes[k]) = op.unique_nodes[k + 1]
             /\ op.line.coords[1] = op.roads.nodes[op.unique_nodes[1]]
             /\ Last(op.line.coords) = op.roads.nodes[Last(op.unique_nodes)]

C12_Witness ==
    /\ RouteDone
    /\ Len(op.unique_nodes) = 3
    /\ shortest_path(op.roads, op.unique_nodes[1], op.unique_nodes[2]) # {}
    /\ shortest_path(op.roads, op.unique_nodes[2], op.unique_nodes[3]) = {}
    /\ op.line = NoneLine

\* C13: when the waypoints snap to 2 or more nodes after consecutive
\* duplicates are dropped, the result is None or a line of at least 2
\* coordinates that are not all the same point.
C13_NoSinglePoint ==
    (RouteDone /\ Len(op.unique_nodes) >= 2) =>
        \/ op.line = NoneLine
        \/ /\ op.line.some
           /\ Len(op.line.coords) >= 2
           /\ \E k \in 2..Len(op.line.coords) : op.line.coords[k] # op.line.coords[1]

C13_Witness ==
    /\ RouteDone
    /\ Len(op.unique_nodes) >= 2
    /\ op.line.some
    /\ Len(op.line.coords) >= 3

SnapDone == op.name = "snap"

\* C14: nearest_edges is called only after nearest_nodes raised, and a node
\* obtained from the edge found is the endpoint of that edge geodesically
\* closer to the input coordinate, the first endpoint on a tie.
C14_CloserEndpoint ==
    SnapDone =>
        LET du == Geodesic(LatLon(op.pt), LatLon(op.roads.nodes[op.edge.u]))
            dv == Geodesic(LatLon(op.pt), LatLon(op.roads.nodes[op.edge.v]))
        IN  /\ \A k \in 1..Len(op.calls) :
                 op.calls[k].fn = "nearest_edges" =>
                     k > 1 /\ op.calls[k - 1] = Search("nearest_nodes", FALSE)
            /\ (op.via = "edges") <=>
                 (\E k \in 1..Len(op.calls) : op.calls[k] = Search("nearest_edges", TRUE))
            /\ op.via = "edges" =>
                 /\ op.edge \in nearest_edges(op.roads, op.pt)
                 /\ op.node \in {op.edge.u, op.edge.v}
                 /\ op.node = op.edge.u <=> du <= dv
                 /\ op.node = op.edge.v <=> dv < du

C14_Witness ==
    /\ SnapDone
    /\ op.via = "edges"
    /\ op.edge.u # op.edge.v
    /\ Geodesic(LatLon(op.pt), LatLon(op.roads.nodes[op.edge.u]))
         = Geodesic(LatLon(op.pt), LatLon(op.roads.nodes[op.edge.v]))
    /\ op.node = op.edge.u

---------------------------------------------------------------------------
(* Properties of perform_map_matching_by_region (SpecMatch)                *)
DistinctWaypoints(seg) ==
    IF seg.trace.some
    THEN Cardinality({seg.trace.pts[k] : k \in 1..Len(seg.trace.pts)})
    ELSE 0

\* the lines routing the segment's waypoints may give on some road network
RoutableTo(seg, ln) ==
    /\ RouteOk(ln)
    /\ \E R \in RoadNetworks :
         ln \in RouteLines[R][extract_waypoints_by_segment(seg.trace.pts)]

\* C15: the loop is never left by an exception; the output has one entry per
\* row iterated, the k-th entry being None or a line routed for the k-th
\* row's waypoints, so a row without a line leaves None at its position and
\* the rows after it are still matched.
C15_OneEntryPerSegment ==
    /\ Matching
    /\ Len(matched) = Len(features)
    /\ \A k \in 1..Len(matched) :
         \/ matched[k] = NoneLine
         \/ DistinctWaypoints(features[k]) >= 2 /\ RoutableTo(features[k], matched[k])

C15_Witness ==
    /\ Len(matched) = 3
    /\ DistinctWaypoints(features[1]) >= 2 /\ matched[1] = NoneLine
    /\ matched[2] # NoneLine
    /\ matched[3] # NoneLine /\ matched[3] # matched[2]

\* C16: for a row with fewer than 2 distinct waypoints (a missing or empty
\* list included) the entry is None and the router, and with it the cache and
\* the provider, is not called.
C16_SkipsWithoutCalls ==
    (op.name = "match" /\ DistinctWaypoints(Last(features)) < 2) =>
        /\ Last(matched) = NoneLine
        /\ ~op.routed
        /\ op.provider_calls = 0

C16_Witness ==
    /\ op.name = "match"
    /\ Len(features) >= 2
    /\ DistinctWaypoints(Last(features)) = 1
    /\ Len(Last(features).trace.pts) = 2
    /\ ~op.routed
    /\ matched[1] # NoneLine

---------------------------------------------------------------------------
(* Properties of group_lines_by_connectivity (SpecGroup)                   *)
Grouped == op.name = "group"

GroupOf(k) == CHOOSE g \in 1..Len(op.groups) : k \in op.groups[g]

\* C17: the groups partition the chunks; two chunks closer than the tolerance
\* are in one group; and a group cannot be cut in two parts without a pair
\* closer than the tolerance across the cut: the groups are the connected
\* components of 'separation < tolerance'.
C17_GroupsAreComponents ==
    Grouped =>
        LET n == Len(op.lines)
            G == op.groups
        IN  /\ \A k \in 1..n : \E g \in 1..Len(G) : k \in G[g]
            /\ \A g \in 1..Len(G) : G[g] # {} /\ G[g] \subseteq 1..n
            /\ \A g, h \in 1..Len(G) : g # h => G[g] \cap G[h] = {}
            /\ \A j, k \in 1..n :
                 (j # k /\ LineDist2(op.lines[j], op.lines[k]) < TOL_DEG * TOL_DEG)
                     => GroupOf(j) = GroupOf(k)
            /\ \A g \in 1..Len(G) : \A S \in SUBSET G[g] :
                 (S # {} /\ S # G[g]) =>
                     \E j \in S, k \in G[g] \ S :
                         LineDist2(op.lines[j], op.lines[k]) < TOL_DEG * TOL_DEG

\* three chunks in one group although the first and the last are not close
C17_Witness ==
    /\ Grouped
    /\ Len(op.lines) = 3
    /\ LineDist2(op.lines[1], op.lines[2]) < TOL_DEG * TOL_DEG
    /\ LineDist2(op.lines[2], op.lines[3]) < TOL_DEG * TOL_DEG
    /\ LineDist2(op.lines[1], op.lines[3]) >= TOL_DEG * TOL_DEG
    /\ Len(op.groups) = 1

---------------------------------------------------------------------------
(* Properties of interpolate_continuous_coords_global (SpecResample)       *)
Resampled == op.name = "resample"

\* the output for island n alone
Alone(n) ==
    interpolate_continuous_coords_global(<<op.lines_coords[n]>>, op.step_m).final_points

RECURSIVE ConcatAlone(_)
ConcatAlone(n) == IF n = 0 THEN <<>> ELSE ConcatAlone(n - 1) \o Alone(n)

\* C18: the output for a list of islands is the concatenation, in order, of
\* the outputs for each island alone, and an island of 2 or more points
\* contributes its own first point as its first sample.
C18_IslandsIndependent ==
    Resampled =>
        /\ op.final_points = ConcatAlone(Len(op.lines_coords))
        /\ \A n \in 1..Len(op.lines_coords) :
             Len(op.lines_coords[n]) >= 2 =>
                 /\ \E k \in 1..Len(op.owner) : op.owner[k] = n
                 /\ LET first == CHOOSE k \in 1..Len(op.owner) :
                                    op.owner[k] = n /\ \A j \in 1..(k - 1) : op.owner[j] # n
                    IN  op.final_points[first] = op.lines_coords[n][1]

\* the first island leaves a rest distance and the second has samples after
\* its first point
C18_Witness ==
    /\ Resampled
    /\ Len(op.lines_coords) = 2
    /\ op.lines_coords[1] = << <<0, 0>>, <<0, 25>> >>
    /\ op.lines_coords[2] = << <<0, 0>>, <<30, 40>> >>
    /\ op.step_m = 10
    /\ Len(op.final_points) = 9

\* consecutive samples k, k+1 of the same island
SameIsland(k) == op.owner[k] = op.owner[k + 1]

Spacing(k) == Geodesic(op.final_points[k], op.final_points[k + 1])

ROUNDING_M == 2

RECURSIVE PathLengthTo(_, _)
PathLengthTo(segment, k) ==
    IF k <= 1 THEN 0
    ELSE PathLengthTo(segment, k - 1) + Geodesic(segment[k - 1], segment[k])

\* the samples of island n in the output
SamplesOf(n) == {k \in 1..Len(op.owner) : op.owner[k] = n}

\* dist_since after the segment that ends at point k of island n
RestAt(n, k) ==
    WalkIsland(SubSeq(op.lines_coords[n], 1, k), 1, op.step_m,
               <<op.lines_coords[n][1]>>, 0).dist_since

\* C30: an island of 2 or more points gives exactly 1 + floor(L / step)
\* samples, L being its path length; the distance since the last sample is
\* in [0, step) after every segment; and the last sample is the island's end
\* point exactly when L is a multiple of the step.
C30_SampleCount ==
    Resampled =>
        \A n \in 1..Len(op.lines_coords) :
            LET segment == op.lines_coords[n]
                L == PathLengthTo(segment, Len(segment))
            IN  Len(segment) >= 2 =>
                  /\ Cardinality(SamplesOf(n)) = 1 + (L \div op.step_m)
                  /\ \A k \in 2..Len(segment) :
                       /\ RestAt(n, k) >= 0
                       /\ RestAt(n, k) < op.step_m
                       /\ RestAt(n, k) = PathLengthTo(segment, k) % op.step_m
                  /\ (RestAt(n, Len(segment)) = 0) <=> (L % op.step_m = 0)
                  /\ (L % op.step_m = 0) =>
                        op.final_points[CHOOSE k \in SamplesOf(n) :
                                            \A j \in SamplesOf(n) : j <= k]
                           = Last(segment)

\* an island whose length is a multiple of the step, and one whose is not
C30_Witness ==
    /\ Resampled
    /\ Len(op.lines_coords) = 2
    /\ op.lines_coords[1] = << <<0, 0>>, <<0, 6>>, <<0, 20>> >>
    /\ op.lines_coords[2] = << <<0, 0>>, <<0, 4>>, <<3, 4>>, <<3, 12>> >>
    /\ op.step_m = 10
    /\ Cardinality(SamplesOf(1)) = 3
    /\ Cardinality(SamplesOf(2)) = 2

---------------------------------------------------------------------------
(* Properties of process_data_and_extract_features (SpecFilter)            *)
Filtered == op.name = "filter"

\* the rows the claim keeps: neither too fast nor too far
RECURSIVE KeptAsClaimed(_)
KeptAsClaimed(rows) ==
    IF rows = <<>> THEN <<>>
    ELSE (IF \/ SpeedAbove(rows[1], MAX_GROUND_SPEED_KPH)
             \/ rows[1].distance_m > MIN_NON_LOCAL_DISTANCE_M
          THEN <<>> ELSE <<rows[1]>>)
         \o KeptAsClaimed(Tail(rows))

\* C27: a segment is left out of the feature table when its speed exceeds
\* MAX_GROUND_SPEED_KPH or its start-to-end distance exceeds
\* MIN_NON_LOCAL_DISTANCE_M, and is kept otherwise.
C27_Original == Filtered => op.features_list = KeptAsClaimed(op.rows)

====
